---- MODULE Spec2Model ----
(***************************************************************************)
(* Model of src/src/dtos.rs: the request DTOs with their derived           *)
(* `Validate` and `Serialize` implementations, and the FilterUserDto       *)
(* projection of a User record.                                            *)
(*                                                                         *)
(* A String is a sequence of one-character strings, an Option<T> is the    *)
(* empty sequence (None) or a one-element sequence (Some), a struct is a   *)
(* record keyed by the Rust field identifiers.                             *)
(***************************************************************************)
EXTENDS Integers, Sequences, FiniteSets

VARIABLES pc, arg, arg0, ret

vars == <<pc, arg, arg0, ret>>

----------------------------------------------------------------------------
(* Bounds of the explored inputs *)

MaxLen == 9          \* longest password / confirm string
MaxNameLen == 1      \* longest name / token / old_password string
MaxEmailLen == 3     \* longest email string
MaxPage == 52        \* largest page number
MaxLimit == 52       \* largest limit
MaxUsers == 2        \* longest slice handed to filter_users

(* Numbers written in the validation attributes *)

MinRequiredLen == 1
MinPasswordLen == 8
MinPage == 1
MinLimit == 1
MaxLimitAllowed == 50

----------------------------------------------------------------------------
(* Values *)

None == <<>>
Some(x) == <<x>>
Option(S) == {None} \cup {Some(x) : x \in S}

Rep(n) == [i \in 1..n |-> "a"]

Passwords ==
    {Rep(n) : n \in 0..MaxLen} \cup {Rep(n - 1) \o <<"b">> : n \in 1..MaxLen}

Names == {Rep(n) : n \in 0..MaxNameLen}

EmailChars == {"a", "@", "."}

Emails == UNION {[1..n -> EmailChars] : n \in 0..MaxEmailLen}

UserRole == {"Admin", "User", "Reserved"}

UserIds == {1, 2}

User ==
    [id : UserIds, name : {"Ann"}, email : {"ann@example.com"},
     password : {"$argon2$secret"}, role : UserRole, verified : BOOLEAN,
     created_at : Option({1}), updated_at : Option({2})]

UserSlices == UNION {[1..n -> User] : n \in 0..MaxUsers}

----------------------------------------------------------------------------
(* Rule primitives, as the validation attributes use them *)

validate_length_off_by_one(value, min) == Len(value) + 1 >= min

validate_length(value, min) == Len(value) >= min

validate_must_match_by_length(a, b) == Len(a) = Len(b)

validate_must_match(a, b) == a = b

validate_range_exclusive_max(value, min, max) ==
    /\ value >= min
    /\ (max = None \/ value < max[1])

validate_range(value, min, max) ==
    /\ value >= min
    /\ (max = None \/ value <= max[1])

HasAt(s) == \E i \in 1..Len(s) : s[i] = "@"

LastAt(s) ==
    CHOOSE i \in 1..Len(s) :
        s[i] = "@" /\ \A j \in (i + 1)..Len(s) : s[j] # "@"

UserPartOk(u) ==
    /\ Len(u) >= 1
    /\ \A i \in 1..Len(u) : u[i] # "@"

DomainPartOk(d) ==
    /\ Len(d) >= 1
    /\ \A i \in 1..Len(d) : d[i] # "@"
    /\ d[1] # "."
    /\ d[Len(d)] # "."
    /\ \A i \in 1..(Len(d) - 1) : ~(d[i] = "." /\ d[i + 1] = ".")

validate_email(val) ==
    /\ val # <<>>
    /\ HasAt(val)
    /\ UserPartOk(SubSeq(val, 1, LastAt(val) - 1))
    /\ DomainPartOk(SubSeq(val, LastAt(val) + 1, Len(val)))

ValidationError(code, message) == [code |-> code, message |-> message]

validate_user_role_any_non_admin(role) ==
    IF role # "Reserved" /\ role # "User"
    THEN <<>>
    ELSE <<ValidationError("invalid_role", None)>>

validate_user_role(role) ==
    IF role \in {"Admin", "User"}
    THEN <<>>
    ELSE <<ValidationError("invalid_role", None)>>

----------------------------------------------------------------------------
(* Schemas: the #[validate(...)] attributes of each struct, in field order *)

Length(min, message) ==
    [kind |-> "length", min |-> min, max |-> None, other |-> "",
     message |-> Some(message)]

Email(message) ==
    [kind |-> "email", min |-> 0, max |-> None, other |-> "",
     message |-> Some(message)]

MustMatch(other, message) ==
    [kind |-> "must_match", min |-> 0, max |-> None, other |-> other,
     message |-> Some(message)]

Range(min, max) ==
    [kind |-> "range", min |-> min, max |-> max, other |-> "",
     message |-> None]

Custom(function) ==
    [kind |-> "custom", min |-> 0, max |-> None, other |-> function,
     message |-> None]

Field(name, rules) == [field |-> name, rules |-> rules]

RegisterUserDtoSchema ==
    << Field("name", <<Length(MinRequiredLen, "Name is Required")>>),
       Field("email", <<Length(MinRequiredLen, "Email is required"),
                        Email("Email is invalid")>>),
       Field("password",
             <<Length(MinPasswordLen,
                      "Password should be at least 8 characters")>>),
       Field("password_confirm",
             <<Length(MinRequiredLen, "Confirm password is required"),
               MustMatch("password", "Passwords do not match")>>) >>

LoginUserDtoSchema ==
    << Field("email", <<Length(MinRequiredLen, "Email is required"),
                        Email("Email is invalid")>>),
       Field("password",
             <<Length(MinPasswordLen,
                      "Password must be at least 8 characters")>>) >>

RequestQueryDtoSchema ==
    << Field("page", <<Range(MinPage, None)>>),
       Field("limit", <<Range(MinLimit, Some(MaxLimitAllowed))>>) >>

NameUpdateDtoSchema ==
    << Field("name", <<Length(MinRequiredLen, "Name is required")>>) >>

RoleUpdateDtoSchema ==
    << Field("role", <<Custom("validate_user_role")>>) >>

UserPasswordUpdateDtoSchema ==
    << Field("new_password",
             <<Length(MinPasswordLen,
                      "Password must be at least 8 characters")>>),
       Field("new_password_confirm",
             <<Length(MinPasswordLen,
                      "Confirm password must be at least 8 characters"),
               MustMatch("new_password", "new passwords do not match")>>),
       Field("old_password",
             <<Length(MinRequiredLen, "Old password is required")>>) >>

VerifyEmailQueryDtoSchema ==
    << Field("token", <<Length(MinRequiredLen, "Email is required")>>) >>

ForgotPasswordRequestDtoSchema ==
    << Field("email", <<Length(MinRequiredLen, "Email is required")>>) >>

ResetPasswordRequestDtoSchema ==
    << Field("token", <<Length(MinRequiredLen, "Token is Required")>>),
       Field("new_password",
             <<Length(MinPasswordLen,
                      "New password must be at least 8 characters")>>),
       Field("new_password_confirm",
             <<Length(MinPasswordLen,
                      "New password confirm must be at least 8 characters"),
               MustMatch("new_password", "New passwords do not match")>>) >>

Schema(T) ==
    CASE T = "RegisterUserDto" -> RegisterUserDtoSchema
      [] T = "LoginUserDto" -> LoginUserDtoSchema
      [] T = "RequestQueryDto" -> RequestQueryDtoSchema
      [] T = "NameUpdateDto" -> NameUpdateDtoSchema
      [] T = "RoleUpdateDto" -> RoleUpdateDtoSchema
      [] T = "UserPasswordUpdateDto" -> UserPasswordUpdateDtoSchema
      [] T = "VerifyEmailQueryDto" -> VerifyEmailQueryDtoSchema
      [] T = "ForgotPasswordRequestDto" -> ForgotPasswordRequestDtoSchema
      [] T = "ResetPasswordRequestDto" -> ResetPasswordRequestDtoSchema

ValidatedTypes ==
    {"RegisterUserDto", "LoginUserDto", "RequestQueryDto", "NameUpdateDto",
     "RoleUpdateDto", "UserPasswordUpdateDto", "VerifyEmailQueryDto",
     "ForgotPasswordRequestDto", "ResetPasswordRequestDto"}

----------------------------------------------------------------------------
(* The derived Validate implementation *)

RuleErrors_suppressed(rule, value, dto) ==
    CASE rule.kind = "length" ->
            IF validate_length(value, rule.min)
            THEN <<>>
            ELSE <<ValidationError("length", rule.message)>>
      [] rule.kind = "email" ->
            IF validate_email(value)
            THEN <<>>
            ELSE <<ValidationError("email", rule.message)>>
      [] rule.kind = "must_match" ->
            IF \/ ~validate_length(dto[rule.other], MinPasswordLen)
               \/ validate_must_match(value, dto[rule.other])
            THEN <<>>
            ELSE <<ValidationError("must_match", rule.message)>>
      [] rule.kind = "range" ->
            IF value = None \/ validate_range(value[1], rule.min, rule.max)
            THEN <<>>
            ELSE <<ValidationError("range", rule.message)>>
      [] rule.kind = "custom" -> validate_user_role(value)

RuleErrors(rule, value, dto) ==
    CASE rule.kind = "length" ->
            IF validate_length(value, rule.min)
            THEN <<>>
            ELSE <<ValidationError("length", rule.message)>>
      [] rule.kind = "email" ->
            IF validate_email(value)
            THEN <<>>
            ELSE <<ValidationError("email", rule.message)>>
      [] rule.kind = "must_match" ->
            IF validate_must_match(value, dto[rule.other])
            THEN <<>>
            ELSE <<ValidationError("must_match", rule.message)>>
      [] rule.kind = "range" ->
            IF value = None \/ validate_range(value[1], rule.min, rule.max)
            THEN <<>>
            ELSE <<ValidationError("range", rule.message)>>
      [] rule.kind = "custom" -> validate_user_role(value)

RECURSIVE FieldErrors_fail_fast(_, _, _)
FieldErrors_fail_fast(rules, value, dto) ==
    IF rules = <<>>
    THEN <<>>
    ELSE IF RuleErrors(Head(rules), value, dto) # <<>>
         THEN RuleErrors(Head(rules), value, dto)
         ELSE FieldErrors_fail_fast(Tail(rules), value, dto)

RECURSIVE FieldErrors(_, _, _)
FieldErrors(rules, value, dto) ==
    IF rules = <<>>
    THEN <<>>
    ELSE RuleErrors(Head(rules), value, dto)
            \o FieldErrors(Tail(rules), value, dto)

validate(T, dto) ==
    LET S == Schema(T)
        errs(i) == FieldErrors(S[i].rules, dto[S[i].field], dto)
        bad == {i \in 1..Len(S) : errs(i) # <<>>}
        errors == [f \in {S[i].field : i \in bad} |->
                      errs(CHOOSE i \in bad : S[i].field = f)]
    IN  IF bad = {}
        THEN [kind |-> "Ok"]
        ELSE [kind |-> "Err", errors |-> errors]

----------------------------------------------------------------------------
(* The derived Serialize implementation: the JSON object's keys *)

F(ident, rename) == [ident |-> ident, rename |-> rename]

SerdeFields(T) ==
    CASE T = "RegisterUserDto" ->
            << F("name", None), F("email", None), F("password", None),
               F("password_confirm", Some("passwordConfirm")) >>
      [] T = "LoginUserDto" -> << F("email", None), F("password", None) >>
      [] T = "RequestQueryDto" -> << F("page", None), F("limit", None) >>
      [] T = "FilterUserDto" ->
            << F("id", None), F("name", None), F("email", None),
               F("role", None), F("verified", None),
               F("created_at", Some("createdAt")),
               F("updated_at", Some("updatedAt")) >>
      [] T = "NameUpdateDto" -> << F("name", None) >>
      [] T = "RoleUpdateDto" -> << F("role", None) >>
      [] T = "UserPasswordUpdateDto" ->
            << F("new_password", None), F("new_password_confirm", None),
               F("old_password", None) >>
      [] T = "VerifyEmailQueryDto" -> << F("token", None) >>
      [] T = "ForgotPasswordRequestDto" -> << F("email", None) >>
      [] T = "ResetPasswordRequestDto" ->
            << F("token", None), F("new_password", None),
               F("new_password_confirm", None) >>

WireName(f) == IF f.rename = None THEN f.ident ELSE f.rename[1]

to_json(T, value) ==
    LET fs == SerdeFields(T)
        at(k) == CHOOSE i \in DOMAIN fs : WireName(fs[i]) = k
    IN  [k \in {WireName(fs[i]) : i \in DOMAIN fs} |-> value[fs[at(k)].ident]]

----------------------------------------------------------------------------
(* The projection of a User record *)

IdToString(id) == IF id = 1 THEN "u1" ELSE "u2"

to_str(role) ==
    CASE role = "Admin" -> "admin"
      [] role = "User" -> "user"
      [] role = "Reserved" -> "reserved"

Panic == [kind |-> "panic"]

filter_user(user) ==
    IF user.created_at = None \/ user.updated_at = None
    THEN Panic
    ELSE [kind |-> "FilterUserDto",
          val |-> [id |-> IdToString(user.id),
                   name |-> user.name,
                   email |-> user.email,
                   verified |-> user.verified,
                   role |-> to_str(user.role),
                   created_at |-> user.created_at[1],
                   updated_at |-> user.updated_at[1]]]

RECURSIVE filter_users_reversed(_)
filter_users_reversed(user) ==
    IF user = <<>>
    THEN [kind |-> "Vec", val |-> <<>>]
    ELSE LET h == filter_user(Head(user))
         IN  IF h.kind = "panic"
             THEN Panic
             ELSE LET t == filter_users_reversed(Tail(user))
                  IN  IF t.kind = "panic"
                      THEN Panic
                      ELSE [kind |-> "Vec", val |-> t.val \o <<h.val>>]

RECURSIVE filter_users(_)
filter_users(user) ==
    IF user = <<>>
    THEN [kind |-> "Vec", val |-> <<>>]
    ELSE LET h == filter_user(Head(user))
         IN  IF h.kind = "panic"
             THEN Panic
             ELSE LET t == filter_users(Tail(user))
                  IN  IF t.kind = "panic"
                      THEN Panic
                      ELSE [kind |-> "Vec", val |-> <<h.val>> \o t.val]

----------------------------------------------------------------------------
(* State machine: a caller holds one value and applies one operation *)

Values(T) ==
    CASE T = "RegisterUserDto" ->
            [name : Names, email : Emails, password : Passwords,
             password_confirm : Passwords]
      [] T = "LoginUserDto" -> [email : Emails, password : Passwords]
      [] T = "RequestQueryDto" ->
            [page : Option(0..MaxPage), limit : Option(0..MaxLimit)]
      [] T = "NameUpdateDto" -> [name : Names]
      [] T = "RoleUpdateDto" -> [role : UserRole]
      [] T = "UserPasswordUpdateDto" ->
            [new_password : Passwords, new_password_confirm : Passwords,
             old_password : Names]
      [] T = "VerifyEmailQueryDto" -> [token : Names]
      [] T = "ForgotPasswordRequestDto" -> [email : Emails]
      [] T = "ResetPasswordRequestDto" ->
            [token : Names, new_password : Passwords,
             new_password_confirm : Passwords]
      [] T = "User" -> User
      [] T = "Users" -> [user : UserSlices]

Init ==
    /\ pc = "start"
    /\ \E T \in ValidatedTypes \cup {"User", "Users"} :
          arg \in [type : {T}, val : Values(T)]
    /\ arg0 = arg
    /\ ret = [kind |-> "none"]

Validate ==
    /\ pc = "start"
    /\ arg.type \in ValidatedTypes
    /\ ret' = validate(arg.type, arg.val)
    /\ pc' = "validated"
    /\ UNCHANGED <<arg, arg0>>

Serialize ==
    /\ pc = "start"
    /\ arg.type \in ValidatedTypes
    /\ ret' = [kind |-> "Json", of |-> arg.type,
               obj |-> to_json(arg.type, arg.val)]
    /\ pc' = "serialized"
    /\ UNCHANGED <<arg, arg0>>

FilterUser ==
    /\ pc = "start"
    /\ arg.type = "User"
    /\ ret' = filter_user(arg.val)
    /\ pc' = "projected"
    /\ UNCHANGED <<arg, arg0>>

FilterUsers ==
    /\ pc = "start"
    /\ arg.type = "Users"
    /\ ret' = filter_users(arg.val.user)
    /\ pc' = "projected"
    /\ UNCHANGED <<arg, arg0>>

SerializeFilterUserDto ==
    /\ pc = "projected"
    /\ ret.kind = "FilterUserDto"
    /\ ret' = [kind |-> "Json", of |-> "FilterUserDto",
               obj |-> to_json("FilterUserDto", ret.val)]
    /\ pc' = "serialized"
    /\ UNCHANGED <<arg, arg0>>

Next ==
    \/ Validate
    \/ Serialize
    \/ FilterUser
    \/ FilterUsers
    \/ SerializeFilterUserDto

Spec == Init /\ [][Next]_vars

----------------------------------------------------------------------------
(* Properties *)

ErrorsOn(f) ==
    IF ret.kind = "Err" /\ f \in DOMAIN ret.errors THEN ret.errors[f] ELSE <<>>

HasError(f, code) ==
    \E i \in DOMAIN ErrorsOn(f) : ErrorsOn(f)[i].code = code

HasErrorSaying(f, code, message) ==
    \E i \in DOMAIN ErrorsOn(f) :
        ErrorsOn(f)[i] = ValidationError(code, Some(message))

MissingTimestamp(u) == u.created_at = None \/ u.updated_at = None

SomeMissingTimestamp(us) == \E i \in DOMAIN us : MissingTimestamp(us[i])

Validated(T) == pc = "validated" /\ arg.type = T

\* C1: projecting a record whose creation or update timestamp is absent
\* returns the named integrity error MissingAuditTimestamp as a value (no
\* crash, no partial output); one such record makes filter_users return the
\* error too.
C1_MissingTimestampIsNamedError ==
    /\ (pc = "projected" /\ arg.type = "User" /\ MissingTimestamp(arg.val))
          => (ret.kind = "Err" /\ ret.error = "MissingAuditTimestamp")
    /\ (pc = "projected" /\ arg.type = "Users"
            /\ SomeMissingTimestamp(arg.val.user))
          => (ret.kind = "Err" /\ ret.error = "MissingAuditTimestamp")

\* C2: a RegisterUserDto with password # password_confirm fails validation
\* with a must_match error on the confirm field; with equal values the
\* equality rule reports nothing, whatever the other fields are.
C2_PasswordConfirmMustMatch ==
    Validated("RegisterUserDto") =>
        IF arg.val.password # arg.val.password_confirm
        THEN /\ ret.kind = "Err"
             /\ HasErrorSaying("password_confirm", "must_match",
                               "Passwords do not match")
        ELSE ~HasError("password_confirm", "must_match")

C2_Witness ==
    /\ Validated("RegisterUserDto")
    /\ Len(arg.val.password) = Len(arg.val.password_confirm)
    /\ Len(arg.val.password) >= MinPasswordLen
    /\ arg.val.password # arg.val.password_confirm
    /\ HasError("password_confirm", "must_match")

\* C3: a RequestQueryDto whose limit is present and outside [1,50] fails
\* validation on limit; a limit in [1,50] passes the limit rule; a present
\* page below 1 fails on page; every page >= 1 passes the page rule.
C3_PagedQueryRanges ==
    Validated("RequestQueryDto") =>
        /\ \A l \in 0..MaxLimit :
              arg.val.limit = Some(l) =>
                  IF l >= 1 /\ l <= 50
                  THEN ErrorsOn("limit") = <<>>
                  ELSE ret.kind = "Err" /\ HasError("limit", "range")
        /\ \A p \in 0..MaxPage :
              arg.val.page = Some(p) =>
                  IF p >= 1
                  THEN ErrorsOn("page") = <<>>
                  ELSE ret.kind = "Err" /\ HasError("page", "range")

C3_Witness ==
    /\ Validated("RequestQueryDto")
    /\ arg.val.limit = Some(51)
    /\ arg.val.page = Some(51)
    /\ ret.kind = "Err"
    /\ DOMAIN ret.errors = {"limit"}

\* C4: a RoleUpdateDto validates iff its role is Admin or User; every other
\* representable role fails with the invalid_role error on the role field.
C4_RoleUpdateOnlyAdminOrUser ==
    Validated("RoleUpdateDto") =>
        IF arg.val.role \in {"Admin", "User"}
        THEN ret.kind = "Ok"
        ELSE /\ ret.kind = "Err"
             /\ DOMAIN ret.errors = {"role"}
             /\ ret.errors["role"] = <<ValidationError("invalid_role", None)>>

C4_Witness ==
    /\ Validated("RoleUpdateDto")
    /\ arg.val.role \notin {"Admin", "User"}
    /\ HasError("role", "invalid_role")

\* C5: for a slice of records that all carry both timestamps, filter_users
\* returns a vector of the same length whose i-th element is the projection
\* of the i-th record, and no element carries the password.
C5_FilterUsersIsOrderedMap ==
    (pc = "projected" /\ arg.type = "Users"
        /\ ~SomeMissingTimestamp(arg.val.user)) =>
        /\ ret.kind = "Vec"
        /\ Len(ret.val) = Len(arg.val.user)
        /\ \A i \in DOMAIN arg.val.user :
              LET u == arg.val.user[i]
                  d == ret.val[i]
              IN  /\ DOMAIN d = {"id", "name", "email", "role", "verified",
                                 "created_at", "updated_at"}
                  /\ d.id = IdToString(u.id)
                  /\ d.name = u.name
                  /\ d.email = u.email
                  /\ d.role \in {"admin", "user", "reserved"}
                  /\ (d.role = "admin") = (u.role = "Admin")
                  /\ (d.role = "user") = (u.role = "User")
                  /\ d.verified = u.verified
                  /\ Some(d.created_at) = u.created_at
                  /\ Some(d.updated_at) = u.updated_at
                  /\ \A k \in {"id", "name", "email", "role"} :
                        d[k] # u.password

C5_Witness ==
    /\ pc = "projected"
    /\ arg.type = "Users"
    /\ Len(arg.val.user) >= 2
    /\ arg.val.user[1] # arg.val.user[2]
    /\ ret.kind = "Vec"
    /\ Len(ret.val) = Len(arg.val.user)

RuleCode(rule) == IF rule.kind = "custom" THEN "invalid_role" ELSE rule.kind

RuleViolated(rule, value, dto) ==
    CASE rule.kind = "length" -> Len(value) < rule.min
      [] rule.kind = "email" -> ~validate_email(value)
      [] rule.kind = "must_match" -> value # dto[rule.other]
      [] rule.kind = "range" ->
            /\ value # None
            /\ \/ value[1] < rule.min
               \/ (rule.max # None /\ value[1] > rule.max[1])
      [] rule.kind = "custom" -> value \notin {"Admin", "User"}

ViolatedRules(S, i, dto) ==
    {j \in DOMAIN S[i].rules :
        RuleViolated(S[i].rules[j], dto[S[i].field], dto)}

OnlyEqualityViolated ==
    /\ arg.val.name # <<>>
    /\ validate_email(arg.val.email)
    /\ Len(arg.val.password) >= MinPasswordLen
    /\ arg.val.password_confirm # <<>>
    /\ arg.val.password_confirm # arg.val.password

\* C6: validation collects every violation: the result holds, per field,
\* exactly one error (code and message of the rule) for each violated rule
\* and none for a satisfied rule; it is Ok iff no rule is violated.  A
\* RegisterUserDto violating only the equality rule yields exactly one
\* error, on the confirm field, saying "Passwords do not match".
C6_CollectAllErrors ==
    pc = "validated" =>
        LET S == Schema(arg.type) IN
        /\ \A i \in DOMAIN S :
              /\ Len(ErrorsOn(S[i].field))
                    = Cardinality(ViolatedRules(S, i, arg.val))
              /\ \A j \in DOMAIN S[i].rules :
                    LET r == S[i].rules[j]
                        e == ValidationError(RuleCode(r), r.message)
                        n == Cardinality({k \in DOMAIN ErrorsOn(S[i].field) :
                                             ErrorsOn(S[i].field)[k] = e})
                    IN  n = IF j \in ViolatedRules(S, i, arg.val)
                            THEN 1 ELSE 0
        /\ (ret.kind = "Ok")
              = (\A i \in DOMAIN S : ViolatedRules(S, i, arg.val) = {})
        /\ ret.kind = "Err" =>
              /\ DOMAIN ret.errors \subseteq {S[i].field : i \in DOMAIN S}
              /\ \A f \in DOMAIN ret.errors : ret.errors[f] # <<>>
        /\ (arg.type = "RegisterUserDto" /\ OnlyEqualityViolated) =>
              ret = [kind |-> "Err",
                     errors |->
                        [password_confirm |->
                            <<ValidationError("must_match",
                                  Some("Passwords do not match"))>>]]

C6_Witness ==
    /\ Validated("RegisterUserDto")
    /\ arg.val.name = <<>>
    /\ arg.val.password # <<>>
    /\ arg.val.password_confirm = <<>>
    /\ DOMAIN ret.errors = {"name", "email", "password", "password_confirm"}
    /\ Len(ret.errors["email"]) = 2
    /\ Len(ret.errors["password_confirm"]) = 2

ConfirmedPassword(T) ==
    IF T = "RegisterUserDto"
    THEN [pw |-> "password", confirm |-> "password_confirm"]
    ELSE [pw |-> "new_password", confirm |-> "new_password_confirm"]

CrossFieldTypes ==
    {"RegisterUserDto", "UserPasswordUpdateDto", "ResetPasswordRequestDto"}

\* C7: when the referenced password field violates its own length rule and
\* the confirm field differs from it, the result holds both the password
\* field's length error and the confirm field's must_match error.
C7_CrossFieldNotSuppressed ==
    (pc = "validated" /\ arg.type \in CrossFieldTypes) =>
        LET c == ConfirmedPassword(arg.type) IN
        (/\ Len(arg.val[c.pw]) < MinPasswordLen
         /\ arg.val[c.confirm] # arg.val[c.pw]) =>
            /\ ret.kind = "Err"
            /\ HasError(c.pw, "length")
            /\ HasError(c.confirm, "must_match")

C7_Witness ==
    /\ Validated("ResetPasswordRequestDto")
    /\ Len(arg.val.new_password) < MinPasswordLen
    /\ Len(arg.val.new_password_confirm) >= MinPasswordLen
    /\ HasError("new_password", "length")
    /\ ErrorsOn("new_password_confirm")
          = <<ValidationError("must_match", Some("New passwords do not match"))>>

LooksLikeAddress(s) ==
    \E i \in 2..(Len(s) - 1) : s[i] = "@"

\* C8: validation leaves its input as it was, and an accepted input
\* satisfies the invariants of its type: equal password and confirm of
\* length >= 8, non-empty required fields, an address-shaped email,
\* 1 <= page, 1 <= limit <= 50, role Admin or User.
C8_AcceptedSatisfiesInvariants ==
    (pc = "validated" /\ ret.kind = "Ok") =>
        LET v == arg.val IN
        /\ arg = arg0
        /\ arg.type = "RegisterUserDto" =>
              /\ v.password = v.password_confirm
              /\ Len(v.password) >= 8
              /\ Len(v.name) >= 1
              /\ Len(v.password_confirm) >= 1
              /\ LooksLikeAddress(v.email)
        /\ arg.type = "LoginUserDto" =>
              /\ Len(v.password) >= 8
              /\ LooksLikeAddress(v.email)
        /\ arg.type = "RequestQueryDto" =>
              /\ v.page = None \/ v.page[1] >= 1
              /\ v.limit = None \/ (v.limit[1] >= 1 /\ v.limit[1] <= 50)
        /\ arg.type = "NameUpdateDto" => Len(v.name) >= 1
        /\ arg.type = "RoleUpdateDto" => v.role \in {"Admin", "User"}
        /\ arg.type = "UserPasswordUpdateDto" =>
              /\ v.new_password = v.new_password_confirm
              /\ Len(v.new_password) >= 8
              /\ Len(v.new_password_confirm) >= 8
              /\ Len(v.old_password) >= 1
        /\ arg.type = "VerifyEmailQueryDto" => Len(v.token) >= 1
        /\ arg.type = "ForgotPasswordRequestDto" => Len(v.email) >= 1
        /\ arg.type = "ResetPasswordRequestDto" =>
              /\ v.new_password = v.new_password_confirm
              /\ Len(v.new_password) >= 8
              /\ Len(v.new_password_confirm) >= 8
              /\ Len(v.token) >= 1

C8_Witness ==
    /\ Validated("UserPasswordUpdateDto")
    /\ ret.kind = "Ok"
    /\ Len(arg.val.new_password) = MinPasswordLen
    /\ arg.val.new_password[MinPasswordLen] = "b"

SnakeCaseIdents ==
    {"password_confirm", "new_password", "new_password_confirm",
     "old_password", "created_at", "updated_at"}

\* C9: every key of a serialized struct is camelCase: the confirm field of
\* RegisterUserDto is passwordConfirm, UserPasswordUpdateDto and
\* ResetPasswordRequestDto carry newPassword and newPasswordConfirm,
\* FilterUserDto carries createdAt and updatedAt, and no key is a snake_case
\* field identifier.
C9_WireNamesAreCamelCase ==
    pc = "serialized" =>
        /\ DOMAIN ret.obj \cap SnakeCaseIdents = {}
        /\ ret.of = "RegisterUserDto" => "passwordConfirm" \in DOMAIN ret.obj
        /\ ret.of \in {"UserPasswordUpdateDto", "ResetPasswordRequestDto"} =>
              {"newPassword", "newPasswordConfirm"} \subseteq DOMAIN ret.obj
        /\ ret.of = "FilterUserDto" =>
              {"createdAt", "updatedAt"} \subseteq DOMAIN ret.obj

====
